---- MODULE Spec2Model ----
(***************************************************************************)
(* Model of the benchmark tooling of sst/opencode-bench:                    *)
(*   run_benchmarks.py        the orchestrator (bounded retry loop)         *)
(*   visualize_instability.py the reporter (load, melt, plot)               *)
(* Each program is a process started by Init; prog says which one runs.     *)
(***************************************************************************)
EXTENDS Integers, Sequences, FiniteSets, TLC

(* ---- bounds ---- *)
MaxRuns == 3
MaxRetries == 3

(* ---- inputs of the orchestrator ---- *)
\* --runs and --max-retries are type=int: any integer is accepted by the CLI
RunsDomain == 0..MaxRuns
RetriesDomain == (0 - 1)..MaxRetries
\* what os.environ holds for a name: missing, the empty string, or a value
EnvValues == {"absent", "empty", "set"}
\* subprocess returncode: the child's exit status, or -N when signal N killed it
ExitedCodes == {0, 1}
SignalCodes == {0 - 9}
ReturnCodes == ExitedCodes \cup SignalCodes
output_prefix == "benchmarks-sample"

VARIABLES
  prog,             \* which script this process runs
  pc,               \* position in main()
  runs_arg,         \* args.runs
  max_retries,      \* args.max_retries
  environ,          \* os.environ restricted to the required names
  visualize,        \* args.visualize
  script_is_file,   \* <<>> until args.visualize_script.is_file() is called, else <<result>>
  run_idx,          \* loop variable of the outer for (0: not yet bound)
  attempt,          \* loop variable of the inner for (0: not yet bound)
  returncode,       \* <<>> while the local is unbound, else <<rc>>
  generated_files,  \* List[Path]
  in_flight,        \* command lines of the subprocesses currently running
  attempts_log,     \* every finished attempt: run, attempt, returncode
  viz_args,         \* file arguments handed to the visualization script
  viz_started,      \* number of times the visualization script was started
  viz_returncode,   \* <<>> until the visualization script exits, else <<rc>>
  stderr,           \* what the interpreter printed on termination
  exit_via,         \* "" while running, else how main() ended
  exit_status,      \* <<>> while running, else <<status of the process>>
  files,            \* reporter: args.files
  file_idx,         \* reporter: number of files load_runs has gone through
  loaded,           \* reporter: what was read so far: path and content
  runs,             \* reporter: the list load_runs builds
  df,               \* reporter: the rows of the DataFrame of melt_scores
  sink_calls,       \* reporter: the DataFrames handed to plot_instability
  image,            \* reporter: <<>> or <<what the saved image shows>>
  platform,         \* reporter: sys.platform, once it has been read
  viewer,           \* reporter: what the attempt to open the image came to
  stdout            \* reporter: the lines printed

ovars == <<prog, pc, runs_arg, max_retries, environ, visualize, script_is_file,
           run_idx, attempt, returncode, generated_files, in_flight,
           attempts_log, viz_args, viz_started, viz_returncode, stderr,
           exit_via, exit_status>>
rvars == <<files, file_idx, loaded, runs, df, sink_calls, image, platform,
           viewer, stdout>>
vars == <<ovars, rvars>>

(* ---- helpers of the orchestrator ---- *)
RequiredVars == <<"OPENCODE_API_KEY", "GITHUB_TOKEN">>

\* output_dir / f"{args.output_prefix}-{run_idx}.json"
OutputFile(i) == <<output_prefix, i, ".json">>

\* build_command: the argument template with the per-run output file
build_command(output_file) == <<"bun", "run", "cli.ts", "opencode", "--eval", "--output", output_file>>

\* variant: stops at the first missing name
Missing_first(required_vars, env) ==
  SubSeq(SelectSeq(required_vars, LAMBDA var : env[var] \in {"absent", "empty"}), 1, 1)

\* [var for var in required_vars if not os.environ.get(var)]
Missing(required_vars, env) ==
  SelectSeq(required_vars, LAMBDA var : env[var] \in {"absent", "empty"})

\* range(start, stop) of Python, as the set of its elements
range(start, stop) == start..(stop - 1)

\* variant: range(1, args.runs), one run short
RunIndices_short == range(1, runs_arg)

\* range(1, args.runs + 1)
RunIndices == range(1, runs_arg + 1)

\* variant: range(1, args.max_retries + 2), one attempt too many
AttemptIndices_extra == range(1, max_retries + 2)

\* range(1, args.max_retries + 1)
AttemptIndices == range(1, max_retries + 1)

\* variant: every return code counts as a success
Succeeded_any(rc) == TRUE

\* if returncode == 0
Succeeded(rc) == rc = 0

\* variant: a failed command is run again at once, the attempt is not counted
AfterAttempt_again(rc) == IF Succeeded(rc) THEN "for_run" ELSE "run_command"

\* variant: the break after a success is missing
AfterAttempt_nobreak(rc) == "for_attempt"

\* where the inner loop goes after an attempt: success breaks out to the
\* outer for, failure falls through to the next attempt
AfterAttempt(rc) == IF Succeeded(rc) THEN "for_run" ELSE "for_attempt"

\* variant: the path is appended twice
Recorded_twice(paths, output_file) == Append(Append(paths, output_file), output_file)

\* generated_files.append(output_file)
Recorded(paths, output_file) == Append(paths, output_file)

\* the status the operating system reports for sys.exit(code) with an int code
ProcessStatus(code) == code % 256

\* raise SystemExit(<str>): the message goes to stderr, the status is 1
StringExitStatus == 1
\* an uncaught exception: traceback on stderr, the status is 1
TracebackStatus == 1

(* ---- Init ---- *)
InitOrchestrator ==
  /\ prog = "run_benchmarks"
  /\ pc = "ensure_env_vars"
  /\ runs_arg \in RunsDomain
  /\ max_retries \in RetriesDomain
  /\ environ \in [{RequiredVars[i] : i \in 1..Len(RequiredVars)} -> EnvValues]
  /\ visualize \in BOOLEAN
  /\ script_is_file = <<>>
  /\ run_idx = 0
  /\ attempt = 0
  /\ returncode = <<>>
  /\ generated_files = <<>>
  /\ in_flight = <<>>
  /\ attempts_log = <<>>
  /\ viz_args = <<>>
  /\ viz_started = 0
  /\ viz_returncode = <<>>
  /\ stderr = <<>>
  /\ exit_via = ""
  /\ exit_status = <<>>
  /\ files = <<>>
  /\ file_idx = 0
  /\ loaded = <<>>
  /\ runs = <<>>
  /\ df = <<>>
  /\ sink_calls = <<>>
  /\ image = <<>>
  /\ platform = ""
  /\ viewer = ""
  /\ stdout = <<>>

(* ---- actions of run_benchmarks.main ---- *)
\* ensure_env_vars(["OPENCODE_API_KEY", "GITHUB_TOKEN"]), then the setup up to
\* generated_files = []
EnsureEnvVars ==
  /\ prog = "run_benchmarks" /\ pc = "ensure_env_vars"
  /\ UNCHANGED rvars
  /\ LET missing == Missing(RequiredVars, environ) IN
       IF missing # <<>>
       THEN /\ stderr' = <<"Missing required environment variable(s)", missing>>
            /\ exit_via' = "SystemExit"
            /\ exit_status' = <<StringExitStatus>>
            /\ pc' = "exited"
       ELSE /\ pc' = "for_run"
            /\ UNCHANGED <<stderr, exit_via, exit_status>>
  /\ UNCHANGED <<prog, runs_arg, max_retries, environ, visualize, script_is_file,
                 run_idx, attempt, returncode, generated_files, in_flight,
                 attempts_log, viz_args, viz_started, viz_returncode>>

\* for run_idx in range(1, args.runs + 1): next element, or fall out of the loop
ForRun ==
  /\ prog = "run_benchmarks" /\ pc = "for_run"
  /\ UNCHANGED rvars
  /\ IF run_idx + 1 \in RunIndices
     THEN /\ run_idx' = run_idx + 1
          /\ attempt' = 0
          /\ pc' = "for_attempt"
     ELSE /\ pc' = "visualize"
          /\ UNCHANGED <<run_idx, attempt>>
  /\ UNCHANGED <<prog, runs_arg, max_retries, environ, visualize, script_is_file,
                 returncode, generated_files, in_flight, attempts_log,
                 viz_args, viz_started, viz_returncode, stderr, exit_via, exit_status>>

\* for attempt in range(1, args.max_retries + 1): the next element; run_command
\* prints and calls subprocess.run, which blocks until the command exits
StartAttempt ==
  /\ prog = "run_benchmarks" /\ pc = "for_attempt"
  /\ UNCHANGED rvars
  /\ attempt + 1 \in AttemptIndices
  /\ attempt' = attempt + 1
  /\ in_flight' = Append(in_flight, build_command(OutputFile(run_idx)))
  /\ pc' = "run_command"
  /\ UNCHANGED <<prog, runs_arg, max_retries, environ, visualize, script_is_file,
                 run_idx, returncode, generated_files, attempts_log,
                 viz_args, viz_started, viz_returncode, stderr, exit_via, exit_status>>

\* variant: exhaustion skips the run instead of exiting
AttemptsExhausted_continue ==
  /\ prog = "run_benchmarks" /\ pc = "for_attempt"
  /\ UNCHANGED rvars
  /\ attempt + 1 \notin AttemptIndices
  /\ pc' = "for_run"
  /\ UNCHANGED <<prog, runs_arg, max_retries, environ, visualize, script_is_file,
                 run_idx, attempt, returncode, generated_files, in_flight,
                 attempts_log, viz_args, viz_started, viz_returncode,
                 stderr, exit_via, exit_status>>

\* the else clause of the inner for: sys.exit(returncode); the local is
\* unbound when no attempt has run, and the read raises UnboundLocalError
AttemptsExhausted ==
  /\ prog = "run_benchmarks" /\ pc = "for_attempt"
  /\ UNCHANGED rvars
  /\ attempt + 1 \notin AttemptIndices
  /\ IF returncode = <<>>
     THEN /\ stderr' = <<"UnboundLocalError", <<"returncode">>>>
          /\ exit_via' = "UnboundLocalError"
          /\ exit_status' = <<TracebackStatus>>
     ELSE /\ stderr' = <<>>
          /\ exit_via' = "sys.exit"
          /\ exit_status' = <<ProcessStatus(returncode[1])>>
  /\ pc' = "exited"
  /\ UNCHANGED <<prog, runs_arg, max_retries, environ, visualize, script_is_file,
                 run_idx, attempt, returncode, generated_files, in_flight,
                 attempts_log, viz_args, viz_started, viz_returncode>>

\* variant: the command is not waited for, it stays in flight
CommandExit_nowait ==
  /\ prog = "run_benchmarks" /\ pc = "run_command"
  /\ UNCHANGED rvars
  /\ \E rc \in ReturnCodes :
       /\ returncode' = <<rc>>
       /\ attempts_log' = Append(attempts_log,
             [run_idx |-> run_idx, attempt |-> attempt, returncode |-> rc])
       /\ generated_files' = IF Succeeded(rc)
                             THEN Recorded(generated_files, OutputFile(run_idx))
                             ELSE generated_files
       /\ pc' = AfterAttempt(rc)
  /\ UNCHANGED <<prog, runs_arg, max_retries, environ, visualize, script_is_file,
                 run_idx, attempt, in_flight, viz_args, viz_started, viz_returncode,
                 stderr, exit_via, exit_status>>

\* subprocess.run returns: returncode is bound; success appends the output file
\* and breaks, failure prints and goes on with the next attempt
CommandExit ==
  /\ prog = "run_benchmarks" /\ pc = "run_command"
  /\ UNCHANGED rvars
  /\ \E rc \in ReturnCodes :
       /\ returncode' = <<rc>>
       /\ attempts_log' = Append(attempts_log,
             [run_idx |-> run_idx, attempt |-> attempt, returncode |-> rc])
       /\ generated_files' = IF Succeeded(rc)
                             THEN Recorded(generated_files, OutputFile(run_idx))
                             ELSE generated_files
       /\ pc' = AfterAttempt(rc)
  /\ in_flight' = SubSeq(in_flight, 1, Len(in_flight) - 1)
  /\ UNCHANGED <<prog, runs_arg, max_retries, environ, visualize, script_is_file,
                 run_idx, attempt, viz_args, viz_started, viz_returncode,
                 stderr, exit_via, exit_status>>

\* if args.visualize: without the flag, or without the script file
\* ("Skipping visualization."), main returns
SkipVisualize ==
  /\ prog = "run_benchmarks" /\ pc = "visualize"
  /\ UNCHANGED rvars
  /\ \/ ~visualize /\ UNCHANGED script_is_file
     \/ visualize /\ script_is_file' = <<FALSE>>
  /\ pc' = "exited"
  /\ exit_via' = "return"
  /\ exit_status' = <<0>>
  /\ UNCHANGED <<prog, runs_arg, max_retries, environ, visualize,
                 run_idx, attempt, returncode, generated_files, in_flight,
                 attempts_log, viz_args, viz_started, viz_returncode, stderr>>

\* visualize_cmd = [sys.executable, script, *generated_files]; subprocess.run
StartVisualize ==
  /\ prog = "run_benchmarks" /\ pc = "visualize"
  /\ UNCHANGED rvars
  /\ visualize /\ script_is_file' = <<TRUE>>
  /\ viz_args' = generated_files
  /\ viz_started' = viz_started + 1
  /\ in_flight' = Append(in_flight, <<"python", "visualize_script">> \o generated_files)
  /\ pc' = "viz_proc"
  /\ UNCHANGED <<prog, runs_arg, max_retries, environ, visualize,
                 run_idx, attempt, returncode, generated_files, attempts_log,
                 viz_returncode, stderr, exit_via, exit_status>>

\* the visualization script exits; a nonzero status is only printed and main
\* returns normally
VizExit ==
  /\ prog = "run_benchmarks" /\ pc = "viz_proc"
  /\ UNCHANGED rvars
  /\ \E rc \in ReturnCodes : viz_returncode' = <<rc>>
  /\ in_flight' = SubSeq(in_flight, 1, Len(in_flight) - 1)
  /\ pc' = "exited"
  /\ exit_via' = "return"
  /\ exit_status' = <<0>>
  /\ UNCHANGED <<prog, runs_arg, max_retries, environ, visualize, script_is_file,
                 run_idx, attempt, returncode, generated_files, attempts_log,
                 viz_args, viz_started, stderr>>

(* ======================================================================= *)
(* visualize_instability.py                                                *)
(* ======================================================================= *)
MaxFiles == 2
\* run entries read over all the files of one invocation
MaxRunEntries == 3

(* ---- JSON values as json.load returns them ---- *)
JNum(n) == [t |-> "num", v |-> n]
JStr(str) == [t |-> "str", v |-> str]
JArr(seq) == [t |-> "arr", v |-> seq]
JObj(f) == [t |-> "obj", v |-> f]
\* a file that is not there, and a file whose text is not JSON
NoFile == [t |-> "nofile", v |-> <<>>]
NotJson == [t |-> "notjson", v |-> <<>>]

\* the result of evaluating an expression: a value, or a raised exception with
\* the argument its message shows
Ok(val) == [ok |-> TRUE, val |-> val]
Raise(type, arg) == [ok |-> FALSE, type |-> type, arg |-> arg]

RECURSIVE SetToSeq(_)
SetToSeq(S) == IF S = {} THEN <<>>
               ELSE LET x == CHOOSE y \in S : TRUE IN <<x>> \o SetToSeq(S \ {x})

\* x[key] with a str key: a dict looks the key up (KeyError shows the key);
\* a list or str wants integer indices and a number is not subscriptable
GetItem(x, key) ==
  IF x.t = "obj"
  THEN IF key \in DOMAIN x.v THEN Ok(x.v[key]) ELSE Raise("KeyError", key)
  ELSE Raise("TypeError", "")

\* for e in x: a list gives its elements, a dict its keys, a str its
\* characters (each again a str); a number is not iterable
Iterate(x) ==
  CASE x.t = "arr" -> Ok(x.v)
    [] x.t = "obj" -> Ok(SetToSeq({JStr(k) : k \in DOMAIN x.v}))
    [] x.t = "str" -> Ok(IF x.v = "" THEN <<>> ELSE <<JStr(x.v)>>)
    [] OTHER -> Raise("TypeError", "")

\* a dict key must be hashable: lists and dicts are not
Hashable(x) == x.t \notin {"arr", "obj"}

\* d[key] = value on an insertion-ordered dict
DictSet(d, key, value) ==
  IF \E i \in 1..Len(d) : d[i].key = key
  THEN [i \in 1..Len(d) |-> IF d[i].key = key
                            THEN [key |-> key, value |-> value] ELSE d[i]]
  ELSE Append(d, [key |-> key, value |-> value])

\* {score["assignment"]["name"]: score["averageScore"] for score in scores}
RECURSIVE ScoresDict(_, _)
ScoresDict(scores, d) ==
  IF scores = <<>> THEN Ok(d)
  ELSE LET score == Head(scores)
           assignment == GetItem(score, "assignment")
           name == IF assignment.ok THEN GetItem(assignment.val, "name")
                   ELSE assignment
           average == GetItem(score, "averageScore")
       IN IF ~name.ok THEN name
          ELSE IF ~average.ok THEN average
          ELSE IF ~Hashable(name.val) THEN Raise("TypeError", "")
          ELSE ScoresDict(Tail(scores), DictSet(d, name.val, average.val))

\* variant: the summary object is taken for the final score
LoadRun_summary(path, idx, run) ==
  LET agent == GetItem(run, "model")
      summary == GetItem(run, "summary")
      scores == GetItem(run, "scores")
      iter == IF scores.ok THEN Iterate(scores.val) ELSE scores
      dict == IF iter.ok THEN ScoresDict(iter.val, <<>>) ELSE iter
  IN IF ~agent.ok THEN agent
     ELSE IF ~summary.ok THEN summary
     ELSE IF ~dict.ok THEN dict
     ELSE Ok([file |-> path.name,
              run_index_in_file |-> idx,
              agent |-> agent.val,
              finalScore |-> summary.val,
              scores |-> dict.val])

\* the dict display appended for one element of data["runs"]
LoadRun(path, idx, run) ==
  LET agent == GetItem(run, "model")
      summary == GetItem(run, "summary")
      final == IF summary.ok THEN GetItem(summary.val, "finalScore") ELSE summary
      scores == GetItem(run, "scores")
      iter == IF scores.ok THEN Iterate(scores.val) ELSE scores
      dict == IF iter.ok THEN ScoresDict(iter.val, <<>>) ELSE iter
  IN IF ~agent.ok THEN agent
     ELSE IF ~final.ok THEN final
     ELSE IF ~dict.ok THEN dict
     ELSE Ok([file |-> path.name,
              run_index_in_file |-> idx,
              agent |-> agent.val,
              finalScore |-> final.val,
              scores |-> dict.val])

\* for idx, run in enumerate(data["runs"]): runs.append(...); gives the list
\* as far as it got and the exception that stopped it, if any
RECURSIVE EnumerateRuns(_, _, _, _)
EnumerateRuns(path, elems, idx, acc) ==
  IF idx >= Len(elems) THEN [runs |-> acc, err |-> <<>>]
  ELSE LET rec == LoadRun(path, idx, elems[idx + 1])
       IN IF rec.ok THEN EnumerateRuns(path, elems, idx + 1, Append(acc, rec.val))
          ELSE [runs |-> acc, err |-> <<rec>>]

\* the body of "for path in files" of load_runs on one file
LoadFile(path, content, acc) ==
  CASE content.t = "nofile" -> [runs |-> acc, err |-> <<Raise("FileNotFoundError", path)>>]
    [] content.t = "notjson" -> [runs |-> acc, err |-> <<Raise("JSONDecodeError", "")>>]
    [] OTHER ->
       LET field == GetItem(content, "runs")
           iter == IF field.ok THEN Iterate(field.val) ELSE field
       IN IF ~iter.ok THEN [runs |-> acc, err |-> <<iter>>]
          ELSE EnumerateRuns(path, iter.val, 0, acc)

\* melt_scores: one row per item of run["scores"], runs and items in order
RECURSIVE MeltRun(_, _)
MeltRun(run, k) ==
  IF k > Len(run.scores) THEN <<>>
  ELSE <<[agent |-> run.agent,
          file |-> run.file,
          assignment |-> run.scores[k].key,
          averageScore |-> run.scores[k].value,
          finalScore |-> run.finalScore]>> \o MeltRun(run, k + 1)

\* variant: the append sits outside the inner loop, one row per run
RECURSIVE melt_scores_outer(_)
melt_scores_outer(rs) ==
  IF rs = <<>> THEN <<>>
  ELSE (IF Head(rs).scores = <<>> THEN <<>>
        ELSE MeltRun(Head(rs), Len(Head(rs).scores)))
       \o melt_scores_outer(Tail(rs))

RECURSIVE melt_scores(_)
melt_scores(rs) ==
  IF rs = <<>> THEN <<>> ELSE MeltRun(Head(rs), 1) \o melt_scores(Tail(rs))

\* variant: the check for an empty frame is missing
Empty_unchecked(frame) == FALSE

\* df.empty
Empty(frame) == frame = <<>>

\* the columns hold what the plotting calls can work with
WellTyped(frame) ==
  \A i \in 1..Len(frame) :
     /\ frame[i].agent.t = "str"
     /\ frame[i].assignment.t = "str"
     /\ frame[i].averageScore.t = "num"
     /\ frame[i].finalScore.t = "num"

(* ---- plot_instability: what the figure shows ---- *)
\* the strings of this model in the order Python compares str values
StrOrder == <<"a.json", "b.json", "gpt", "lint", "o1", "test">>
Rank(s) == CHOOSE i \in 1..Len(StrOrder) : StrOrder[i] = s

\* sorted(<set of str>)
RECURSIVE sorted(_)
sorted(S) ==
  IF S = {} THEN <<>>
  ELSE LET m == CHOOSE x \in S : \A y \in S : Rank(x) <= Rank(y)
       IN <<m>> \o sorted(S \ {m})

\* variant: the agents are not sorted
Agents_unsorted(frame) ==
  LET RECURSIVE firsts(_, _)
      firsts(k, acc) ==
        IF k > Len(frame) THEN acc
        ELSE firsts(k + 1, IF \E i \in 1..Len(acc) : acc[i] = frame[k].agent.v
                           THEN acc ELSE <<frame[k].agent.v>> \o acc)
  IN firsts(1, <<>>)

\* agents = sorted(df["agent"].unique())
Agents(frame) == sorted({frame[i].agent.v : i \in 1..Len(frame)})

\* agent_df = df[df["agent"] == agent]
AgentRows(frame, agent) == SelectSeq(frame, LAMBDA row : row.agent.v = agent)

\* agent_df[["file", "finalScore"]]
FileAndFinal(rows) ==
  [i \in 1..Len(rows) |-> [file |-> rows[i].file, finalScore |-> rows[i].finalScore.v]]

\* .drop_duplicates(): the first of equal rows is kept, the order stays
RECURSIVE drop_duplicates(_)
drop_duplicates(rows) ==
  IF rows = <<>> THEN <<>>
  ELSE LET init == drop_duplicates(SubSeq(rows, 1, Len(rows) - 1))
           last == rows[Len(rows)]
       IN IF \E i \in 1..Len(init) : init[i] = last THEN init ELSE Append(init, last)

\* .sort_values("file"): ascending by file; rows of the same file keep their
\* order (the sort of short columns is an insertion sort)
RECURSIVE sort_values(_)
sort_values(rows) ==
  IF rows = <<>> THEN <<>>
  ELSE LET init == sort_values(SubSeq(rows, 1, Len(rows) - 1))
           last == rows[Len(rows)]
           before == SelectSeq(init, LAMBDA r : Rank(r.file) <= Rank(last.file))
           after == SelectSeq(init, LAMBDA r : Rank(r.file) > Rank(last.file))
       IN before \o <<last>> \o after

\* final_scores of one agent, the data of the bar plot
final_scores(frame, agent) ==
  sort_values(drop_duplicates(FileAndFinal(AgentRows(frame, agent))))

\* variant: aggfunc takes the first value of a cell
Mean_first(values) == [sum |-> values[1], n |-> 1]

\* aggfunc="mean": the sum of the values over their number
Mean(values) ==
  LET RECURSIVE Sum(_)
      Sum(k) == IF k = 0 THEN 0 ELSE values[k] + Sum(k - 1)
  IN [sum |-> Sum(Len(values)), n |-> Len(values)]

\* pivot_table(index="assignment", columns="file", values="averageScore",
\* aggfunc="mean").reindex(sorted(assignments)).sort_index(axis=1): a cell
\* without rows is NaN, here <<>>
pivot_table(rows) ==
  LET index == sorted({rows[i].assignment.v : i \in 1..Len(rows)})
      columns == sorted({rows[i].file : i \in 1..Len(rows)})
      values(a, f) ==
        LET sel == SelectSeq(rows, LAMBDA r : r.assignment.v = a /\ r.file = f)
        IN [k \in 1..Len(sel) |-> sel[k].averageScore.v]
  IN [index |-> index,
      columns |-> columns,
      cells |-> [i \in 1..Len(index) |-> [j \in 1..Len(columns) |->
                   IF values(index[i], columns[j]) = <<>> THEN <<>>
                   ELSE <<Mean(values(index[i], columns[j]))>>]]]

\* the two axes of each agent, in the order of the columns of the figure
Axes(frame) ==
  LET agents == Agents(frame)
  IN [col \in 1..Len(agents) |->
        [agent |-> agents[col],
         final_scores |-> final_scores(frame, agents[col]),
         pivot |-> pivot_table(AgentRows(frame, agents[col]))]]

\* what fig.savefig writes: the axes drawn from the frame; for columns of
\* other types than the format's the drawing is left open
Figure(frame) ==
  [frame |-> frame, axes |-> IF WellTyped(frame) THEN Axes(frame) ELSE <<>>]

(* ---- the artifacts the reporter may find on disk ---- *)
\* what the benchmark writes for one run record (artifact format)
SerializeRun(r) ==
  JObj([model |-> JStr(r.agent),
        summary |-> JObj([finalScore |-> JNum(r.finalScore)]),
        scores |-> JArr([i \in 1..Len(r.scores) |->
                     JObj([assignment |-> JObj([name |-> JStr(r.scores[i].name)]),
                           averageScore |-> JNum(r.scores[i].avg)])])])

Serialize(recs) == JObj([runs |-> JArr([i \in 1..Len(recs) |-> SerializeRun(recs[i])])])

\* scores in hundredths
Entry(name, avg) == [name |-> name, avg |-> avg]
Run(agent, final, scores) == [agent |-> agent, finalScore |-> final, scores |-> scores]

SampleRuns ==
  { Run("gpt", 80, <<Entry("lint", 90), Entry("test", 70)>>),
    Run("gpt", 60, <<Entry("test", 65), Entry("lint", 50)>>),
    Run("o1", 80, <<Entry("lint", 50)>>),
    Run("gpt", 80, <<>>) }

SeqsUpTo(S, n) == UNION {[1..k -> S] : k \in 0..n}

WellFormedArtifacts == {Serialize(recs) : recs \in SeqsUpTo(SampleRuns, MaxRunEntries)}

\* obj without key, and obj with key set to val
DropKey(obj, key) == JObj([k \in DOMAIN obj.v \ {key} |-> obj.v[k]])
SetKey(obj, key, val) ==
  JObj([k \in DOMAIN obj.v \cup {key} |-> IF k = key THEN val ELSE obj.v[k]])

\* obj with its first score entry replaced
SetScore(run, score) ==
  SetKey(run, "scores", JArr(<<score>> \o Tail(run.v["scores"].v)))

\* run entries that depart from the format in one place
DamagedRuns ==
  LET run == SerializeRun(Run("gpt", 80, <<Entry("lint", 90), Entry("test", 70)>>))
      score == run.v["scores"].v[1]
  IN { DropKey(run, "model"), DropKey(run, "summary"), DropKey(run, "scores"),
       SetKey(run, "summary", JObj(<<>>)),
       SetKey(run, "summary", JNum(80)),
       SetKey(run, "summary", JObj([finalScore |-> JStr("high")])),
       SetKey(run, "model", JNum(4)),
       SetKey(run, "scores", JNum(90)),
       SetKey(run, "scores", JObj(<<>>)),
       SetScore(run, DropKey(score, "assignment")),
       SetScore(run, DropKey(score, "averageScore")),
       SetScore(run, SetKey(score, "assignment", JObj(<<>>))),
       SetScore(run, SetKey(score, "assignment", JStr("lint"))),
       SetScore(run, SetKey(score, "assignment", JObj([name |-> JArr(<<>>)]))),
       SetScore(run, SetKey(score, "averageScore", JStr("high"))),
       SetScore(run, JNum(90)),
       JStr("gpt") }

\* a damaged run entry alone, or after a well-formed one
DamagedArtifacts ==
  LET good == SerializeRun(Run("gpt", 60, <<Entry("test", 65), Entry("lint", 50)>>))
  IN {JObj([runs |-> JArr(<<bad>>)]) : bad \in DamagedRuns}
     \cup {JObj([runs |-> JArr(<<good, bad>>)]) : bad \in DamagedRuns}
     \cup { JObj(<<>>), JArr(<<>>), JObj([runs |-> JNum(1)]),
            JObj([runs |-> JObj(<<>>)]), NotJson, NoFile }

Artifacts == WellFormedArtifacts \cup DamagedArtifacts

\* two directories hold a file of the same name
Paths == { [dir |-> "out1", name |-> "a.json"],
           [dir |-> "out1", name |-> "b.json"],
           [dir |-> "out2", name |-> "a.json"] }

\* the command line names up to MaxFiles paths, each once
FileLists == {fs \in SeqsUpTo(Paths, MaxFiles) :
                \A i, j \in 1..Len(fs) : i # j => fs[i] # fs[j]}

Platforms == {"darwin", "linux", "win32", "freebsd"}

InitReporter ==
  /\ prog = "visualize_instability"
  /\ pc = "parse_args"
  /\ files \in FileLists
  /\ platform = ""
  /\ viewer = ""
  /\ file_idx = 0
  /\ loaded = <<>>
  /\ runs = <<>>
  /\ df = <<>>
  /\ sink_calls = <<>>
  /\ image = <<>>
  /\ stdout = <<>>
  /\ stderr = <<>>
  /\ exit_via = ""
  /\ exit_status = <<>>
  /\ runs_arg = 0 /\ max_retries = 0
  /\ environ = [v \in {RequiredVars[i] : i \in 1..Len(RequiredVars)} |-> "set"]
  /\ visualize = FALSE /\ script_is_file = <<>>
  /\ run_idx = 0 /\ attempt = 0 /\ returncode = <<>>
  /\ generated_files = <<>> /\ in_flight = <<>> /\ attempts_log = <<>>
  /\ viz_args = <<>> /\ viz_started = 0 /\ viz_returncode = <<>>

\* what the orchestrator's variables keep while the reporter runs
OrchestratorIdle ==
  UNCHANGED <<runs_arg, max_retries, environ, visualize, script_is_file,
              run_idx, attempt, returncode, generated_files, in_flight,
              attempts_log, viz_args, viz_started, viz_returncode>>

\* the status argparse ends the process with on a usage error
UsageErrorStatus == 2

\* parser.parse_args(): files has nargs="+", an empty list is a usage error
ParseArgs ==
  /\ prog = "visualize_instability" /\ pc = "parse_args"
  /\ IF Len(files) = 0
     THEN /\ stderr' = <<"error: the following arguments are required", "files">>
          /\ exit_via' = "argparse.error"
          /\ exit_status' = <<UsageErrorStatus>>
          /\ pc' = "exited"
     ELSE /\ pc' = "load_runs"
          /\ UNCHANGED <<stderr, exit_via, exit_status>>
  /\ UNCHANGED <<prog, rvars>>
  /\ OrchestratorIdle

\* the number of run entries an artifact holds
Entries(c) ==
  IF c.t = "obj" /\ "runs" \in DOMAIN c.v /\ c.v["runs"].t = "arr"
  THEN Len(c.v["runs"].v) ELSE 0

RECURSIVE EntriesRead(_)
EntriesRead(reads) ==
  IF reads = <<>> THEN 0
  ELSE Entries(Head(reads).content) + EntriesRead(Tail(reads))

\* what a path holds when it is read: a file read before still holds the same;
\* one invocation meets at most MaxRunEntries run entries and at most one
\* artifact that departs from the format
Readable(path) ==
  IF \E i \in 1..Len(loaded) : loaded[i].path = path
  THEN {loaded[CHOOSE i \in 1..Len(loaded) : loaded[i].path = path].content}
  ELSE {c \in Artifacts :
          /\ Entries(c) + EntriesRead(loaded) <= MaxRunEntries
          /\ c \in DamagedArtifacts =>
                \A i \in 1..Len(loaded) : loaded[i].content \notin DamagedArtifacts}

\* load_runs, one file of the list per step: an exception leaves main
LoadNextFile ==
  /\ prog = "visualize_instability" /\ pc = "load_runs"
  /\ file_idx < Len(files)
  /\ LET path == files[file_idx + 1] IN
     \E content \in Readable(path) :
       LET res == LoadFile(path, content, runs) IN
         /\ loaded' = Append(loaded, [path |-> path, content |-> content])
         /\ runs' = res.runs
         /\ file_idx' = file_idx + 1
         /\ IF res.err # <<>>
            THEN /\ stderr' = <<res.err[1].type, res.err[1].arg>>
                 /\ exit_via' = res.err[1].type
                 /\ exit_status' = <<TracebackStatus>>
                 /\ pc' = "exited"
            ELSE /\ pc' = "load_runs"
                 /\ UNCHANGED <<stderr, exit_via, exit_status>>
  /\ UNCHANGED <<prog, files, df, sink_calls, image, platform, viewer, stdout>>
  /\ OrchestratorIdle

\* df = melt_scores(runs); if df.empty: raise SystemExit("No runs found ...")
MeltScores ==
  /\ prog = "visualize_instability" /\ pc = "load_runs"
  /\ file_idx = Len(files)
  /\ df' = melt_scores(runs)
  /\ IF Empty(df')
     THEN /\ stderr' = <<"No runs found in the provided files.", "">>
          /\ exit_via' = "SystemExit"
          /\ exit_status' = <<StringExitStatus>>
          /\ pc' = "exited"
     ELSE /\ pc' = "plot_instability"
          /\ UNCHANGED <<stderr, exit_via, exit_status>>
  /\ UNCHANGED <<prog, files, file_idx, loaded, runs, sink_calls, image,
                 platform, viewer, stdout>>
  /\ OrchestratorIdle

\* plot_instability up to fig.savefig(output) and the print after it
PlotInstability ==
  /\ prog = "visualize_instability" /\ pc = "plot_instability"
  /\ sink_calls' = Append(sink_calls, df)
  /\ image' = <<Figure(df)>>
  /\ stdout' = Append(stdout, "Saved visualization")
  /\ pc' = "open_viewer"
  /\ UNCHANGED <<prog, files, file_idx, loaded, runs, df, platform, viewer,
                 stderr, exit_via, exit_status>>
  /\ OrchestratorIdle

\* plot_instability on columns the plotting library cannot work with (a score
\* that is not a number, agents of mixed types): the call may also raise
PlotRaises ==
  /\ prog = "visualize_instability" /\ pc = "plot_instability"
  /\ ~WellTyped(df)
  /\ sink_calls' = Append(sink_calls, df)
  /\ stderr' = <<"TypeError", "">>
  /\ exit_via' = "TypeError"
  /\ exit_status' = <<TracebackStatus>>
  /\ pc' = "exited"
  /\ UNCHANGED <<prog, files, file_idx, loaded, runs, df, image, platform,
                 viewer, stdout>>
  /\ OrchestratorIdle

\* what the attempt to open the image can come to
ViewerOutcomes == {"none", "opened", "nonzero exit", "raises"}

\* variant: no except clause, an exception of the open call leaves main
OpenViewer_uncaught ==
  /\ prog = "visualize_instability" /\ pc = "open_viewer"
  /\ \E host \in Platforms, outcome \in ViewerOutcomes :
       /\ host \notin {"darwin", "linux"} => outcome # "nonzero exit"
       /\ host \notin {"darwin", "linux", "win32"} => outcome = "none"
       /\ host \in {"darwin", "linux", "win32"} => outcome # "none"
       /\ platform' = host
       /\ viewer' = outcome
       /\ exit_via' = IF outcome = "raises" THEN "OSError" ELSE "return"
       /\ exit_status' = IF outcome = "raises" THEN <<TracebackStatus>> ELSE <<0>>
  /\ pc' = "exited"
  /\ UNCHANGED <<prog, files, file_idx, loaded, runs, df, sink_calls, image,
                 stderr, stdout>>
  /\ OrchestratorIdle

\* the try block at the end of plot_instability, then main returns:
\* subprocess.run(..., check=False) ignores the status of the viewer, os.startfile
\* has none; an exception of either is printed; other platforms try nothing
OpenViewer ==
  /\ prog = "visualize_instability" /\ pc = "open_viewer"
  /\ \E host \in Platforms, outcome \in ViewerOutcomes :
       /\ host \notin {"darwin", "linux"} => outcome # "nonzero exit"
       /\ host \notin {"darwin", "linux", "win32"} => outcome = "none"
       /\ host \in {"darwin", "linux", "win32"} => outcome # "none"
       /\ platform' = host
       /\ viewer' = outcome
       /\ stdout' = IF outcome = "raises"
                    THEN Append(stdout, "Could not open image automatically")
                    ELSE stdout
  /\ pc' = "exited"
  /\ exit_via' = "return"
  /\ exit_status' = <<0>>
  /\ UNCHANGED <<prog, files, file_idx, loaded, runs, df, sink_calls, image,
                 stderr>>
  /\ OrchestratorIdle

(* ---- the orchestrator as a process ---- *)
Init == InitOrchestrator

Next ==
  \/ EnsureEnvVars
  \/ ForRun
  \/ StartAttempt
  \/ AttemptsExhausted
  \/ CommandExit
  \/ SkipVisualize
  \/ StartVisualize
  \/ VizExit

Spec == Init /\ [][Next]_vars

\* the interpreter takes the next step of main whenever there is one, and
\* every started command exits (subprocess.run returns)
Fairness ==
  /\ WF_vars(EnsureEnvVars) /\ WF_vars(ForRun) /\ WF_vars(StartAttempt)
  /\ WF_vars(AttemptsExhausted) /\ WF_vars(SkipVisualize) /\ WF_vars(StartVisualize)
  /\ WF_vars(CommandExit) /\ WF_vars(VizExit)

FairSpec == Init /\ [][Next]_vars /\ Fairness

(* ---- the reporter as a process ---- *)
NextReporter ==
  \/ ParseArgs
  \/ LoadNextFile
  \/ MeltScores
  \/ PlotInstability
  \/ PlotRaises
  \/ OpenViewer

SpecReporter == InitReporter /\ [][NextReporter]_vars

TypeOK ==
  /\ pc \in {"ensure_env_vars", "for_run", "for_attempt", "run_command",
             "visualize", "viz_proc", "exited",
             "parse_args", "load_runs", "plot_instability", "open_viewer"}
  /\ Len(in_flight) <= 1
(* ======================================================================= *)
(* Properties of the orchestrator                                          *)
(* ======================================================================= *)
Orch == prog = "run_benchmarks"

\* the finished attempts of run i, in the order they ran
LogOfRun(i) == SelectSeq(attempts_log, LAMBDA e : e.run_idx = i)

\* the names whose value is absent or empty, read off os.environ
MissingNames == {v \in DOMAIN environ : environ[v] \in {"absent", "empty"}}

\* run i has an attempt that returned 0
RunSucceeded(i) == \E p \in 1..Len(attempts_log) :
                      attempts_log[p].run_idx = i /\ attempts_log[p].returncode = 0

AllRunsSucceeded == \A i \in 1..runs_arg : RunSucceeded(i)

\* the outer loop is over
LoopOver == pc \in {"visualize", "viz_proc", "exited"}

\* [path(1), ..., path(n)]
PathsUpTo(n) == [i \in 1..n |-> OutputFile(i)]

\* C1: with R >= 1 and M >= 1 and every attempt returning 0, the orchestrator
\* ends its loop with exactly the R paths path(1..R) in run order and with
\* exactly one attempt per run.
C1_AllSucceed ==
  ( /\ Orch /\ runs_arg >= 1 /\ max_retries >= 1
    /\ MissingNames = {}
    /\ LoopOver
    /\ \A p \in 1..Len(attempts_log) : attempts_log[p].returncode = 0 )
  => /\ generated_files = PathsUpTo(runs_arg)
     /\ Len(attempts_log) = runs_arg
     /\ \A i \in 1..runs_arg : /\ attempts_log[i].run_idx = i
                               /\ attempts_log[i].attempt = 1
     /\ exit_via \in {"", "return"}

C1_Witness ==
  /\ Orch /\ pc = "exited" /\ runs_arg >= 2 /\ max_retries >= 1
  /\ Len(generated_files) = runs_arg
  /\ Len(attempts_log) = runs_arg

\* C2: when run i fails on its first k attempts (k < M) and returns 0 on
\* attempt k+1, exactly k+1 attempts were executed for run i, its path is
\* recorded, and the orchestrator goes on with run i+1 at attempt 1 instead of
\* aborting.
C2_RetryThenSucceed ==
  Orch => \A p \in 1..Len(attempts_log) :
    attempts_log[p].returncode = 0 =>
      LET i == attempts_log[p].run_idx
          mine == LogOfRun(i)
          last == p = Len(attempts_log)
      IN /\ attempts_log[p].attempt <= max_retries
         /\ Len(mine) = attempts_log[p].attempt
         /\ \A j \in 1..Len(mine) :
               /\ mine[j].attempt = j
               /\ j < Len(mine) => mine[j].returncode # 0
         /\ Len(generated_files) >= i /\ generated_files[i] = OutputFile(i)
         /\ ~last => /\ attempts_log[p + 1].run_idx = i + 1
                     /\ attempts_log[p + 1].attempt = 1
         /\ last => exit_via \in {"", "return"}
         /\ (last /\ i < runs_arg) =>
               /\ pc \in {"for_run", "for_attempt", "run_command"}
               /\ pc # "for_run" => run_idx = i + 1
               /\ pc = "run_command" => attempt = 1

\* run 1 failed twice and then succeeded, and run 2 has been attempted
C2_Witness ==
  /\ Orch /\ Len(attempts_log) >= 4
  /\ attempts_log[1].returncode # 0 /\ attempts_log[2].returncode # 0
  /\ attempts_log[3].returncode = 0 /\ attempts_log[3].run_idx = 1
  /\ attempts_log[4].run_idx = 2

\* C3: when all M attempts of run i return nonzero, the orchestrator aborts
\* right after the M-th attempt: no later attempt exists, and the exit code of
\* the process equals the return code of that M-th attempt, which is nonzero.
C3_AbortPropagatesExitCode ==
  Orch => \A p \in 1..Len(attempts_log) :
    ( /\ max_retries >= 1
      /\ attempts_log[p].attempt = max_retries
      /\ attempts_log[p].returncode # 0 )
    => /\ p = Len(attempts_log)
       /\ pc \in {"for_attempt", "exited"}
       /\ run_idx = attempts_log[p].run_idx
       /\ viz_started = 0
       /\ pc = "exited" => /\ exit_status = <<attempts_log[p].returncode>>
                           /\ exit_status[1] # 0

\* C4: configuration is validated once, before the first run; a missing or
\* empty required value ends the process with a nonzero status before any
\* attempt, and the message names every missing value; with nothing missing the
\* validation changes nothing and the runs start.
C4_ConfigValidatedFirst ==
  Orch =>
    /\ pc = "ensure_env_vars" =>
          /\ attempts_log = <<>> /\ in_flight = <<>> /\ run_idx = 0
          /\ exit_status = <<>>
    /\ (MissingNames # {} /\ pc # "ensure_env_vars") =>
          /\ pc = "exited" /\ exit_via = "SystemExit"
          /\ exit_status # <<>> /\ exit_status[1] # 0
          /\ attempts_log = <<>> /\ in_flight = <<>> /\ run_idx = 0
          /\ viz_started = 0 /\ generated_files = <<>>
          /\ Len(stderr) = 2
          /\ stderr[1] = "Missing required environment variable(s)"
          /\ {stderr[2][k] : k \in 1..Len(stderr[2])} = MissingNames
          /\ Len(stderr[2]) = Cardinality(MissingNames)
    /\ MissingNames = {} =>
          /\ exit_via # "SystemExit"
          /\ (pc = "for_run" /\ run_idx = 0) =>
                /\ generated_files = <<>> /\ attempts_log = <<>>
                /\ stderr = <<>> /\ exit_status = <<>> /\ returncode = <<>>
          /\ (pc = "exited" /\ runs_arg >= 1 /\ max_retries >= 1) =>
                Len(attempts_log) >= 1

\* both required values are missing and the process has ended
C4_Witness ==
  /\ Orch /\ pc = "exited"
  /\ Cardinality(MissingNames) = 2
  /\ Len(stderr) = 2 /\ Len(stderr[2]) = 2

\* C5: the process exits 0 exactly when all R runs succeeded and,
\* with reporting enabled, the reporting step succeeded; a fatal end of the
\* reporting step gives a nonzero exit status.
C5_ExitZeroOnlyOnFullSuccess ==
  (Orch /\ pc = "exited") =>
    ( exit_status = <<0>>
      <=> /\ MissingNames = {}
          /\ AllRunsSucceeded
          /\ viz_returncode # <<>> => viz_returncode = <<0>> )

\* C6: the reporting step is started only when all R runs have succeeded, it
\* gets exactly the R recorded paths in run order, and it is never started
\* after an exhausted-retries abort, whatever runs succeeded before.
C6_ReportOnlyAfterAllRuns ==
  Orch =>
    /\ viz_started > 0 =>
          /\ viz_started = 1
          /\ AllRunsSucceeded
          /\ viz_args = PathsUpTo(runs_arg)
          /\ viz_args = generated_files
          /\ exit_via \in {"", "return"}
    /\ viz_started = 0 => viz_args = <<>>
    /\ exit_via \in {"sys.exit", "UnboundLocalError"} =>
          /\ viz_started = 0 /\ viz_returncode = <<>>
          /\ ~AllRunsSucceeded
    /\ \A k \in 1..Len(in_flight) :
          in_flight[k][1] = "python" => AllRunsSucceeded

\* the reporting step runs after a retried run; and an abort after a success
C6_Witness ==
  /\ Orch /\ pc = "viz_proc" /\ runs_arg >= 2
  /\ Len(attempts_log) > runs_arg
  /\ viz_args = generated_files

C6_WitnessAbort ==
  /\ Orch /\ exit_via = "sys.exit" /\ Len(generated_files) >= 1
\* the last finished attempt, if any
LastLogged == attempts_log[Len(attempts_log)]

\* C13: execution is strictly sequential: at most one command is in flight;
\* an attempt is in flight only after the previous attempt of its run has
\* exited (failed), the first attempt of run i+1 only after the successful
\* attempt of run i has exited, and the reporting step only after the last
\* run's command has exited.
C13_StrictlySequential ==
  Orch =>
    /\ Len(in_flight) <= 1
    /\ Len(in_flight) = 1 <=> pc \in {"run_command", "viz_proc"}
    /\ pc = "run_command" =>
         /\ in_flight = <<build_command(OutputFile(run_idx))>>
         /\ \A e \in {attempts_log[p] : p \in 1..Len(attempts_log)} :
              <<e.run_idx, e.attempt>> # <<run_idx, attempt>>
         /\ attempt > 1 =>
              /\ attempts_log # <<>>
              /\ LastLogged.run_idx = run_idx
              /\ LastLogged.attempt = attempt - 1
              /\ LastLogged.returncode # 0
         /\ (attempt = 1 /\ run_idx > 1) =>
              /\ attempts_log # <<>>
              /\ LastLogged.run_idx = run_idx - 1
              /\ LastLogged.returncode = 0
         /\ (attempt = 1 /\ run_idx = 1) => attempts_log = <<>>
    /\ pc = "viz_proc" =>
         /\ in_flight[1][1] = "python"
         /\ runs_arg >= 1 =>
              /\ attempts_log # <<>>
              /\ LastLogged.run_idx = runs_arg
              /\ LastLogged.returncode = 0

\* a third attempt of the second run is in flight
C13_Witness ==
  /\ Orch /\ pc = "run_command" /\ run_idx = 2 /\ attempt = 3
  /\ Len(in_flight) = 1

\* C15: whenever a run index is current it lies in 1..R and whenever an
\* attempt index is current it lies in 1..M; the runs are visited as
\* 1, 2, ... with none skipped or repeated, and no run gets more than M
\* attempts.
C15_IndexRanges ==
  Orch =>
    /\ run_idx # 0 => run_idx \in 1..runs_arg
    /\ attempt # 0 => attempt \in 1..max_retries
    /\ pc \in {"for_attempt", "run_command"} => run_idx \in 1..runs_arg
    /\ pc = "run_command" => attempt \in 1..max_retries
    /\ \A p \in 1..Len(attempts_log) :
         /\ attempts_log[p].run_idx \in 1..run_idx
         /\ attempts_log[p].attempt \in 1..max_retries
    /\ \A p \in 1..(Len(attempts_log) - 1) :
         LET e == attempts_log[p]
             n == attempts_log[p + 1]
         IN \/ n.run_idx = e.run_idx /\ n.attempt = e.attempt + 1
            \/ n.run_idx = e.run_idx + 1 /\ n.attempt = 1
    /\ attempts_log # <<>> => attempts_log[1].run_idx = 1 /\ attempts_log[1].attempt = 1
    /\ \A i \in 1..(run_idx - 1) : RunSucceeded(i)
    /\ \A i \in 1..runs_arg :
         LogOfRun(i) # <<>> => Len(LogOfRun(i)) <= max_retries

\* the last run has used up all its attempts after the runs before it succeeded
C15_Witness ==
  /\ Orch /\ run_idx = runs_arg /\ runs_arg = MaxRuns
  /\ max_retries = MaxRetries
  /\ Len(LogOfRun(run_idx)) = max_retries

\* the state of run i in the state machine of the runs
Aborted == pc = "exited" /\ exit_via \in {"sys.exit", "UnboundLocalError"}
RunState(i) ==
  IF RunSucceeded(i) THEN "Succeeded"
  ELSE IF i = run_idx /\ Aborted THEN "Exhausted"
  ELSE IF i = run_idx /\ pc \in {"for_attempt", "run_command"} THEN "Attempting"
  ELSE "Pending"

RunTransitions ==
  { <<"Pending", "Pending">>, <<"Pending", "Attempting">>,
    <<"Attempting", "Attempting">>, <<"Attempting", "Succeeded">>,
    <<"Attempting", "Exhausted">>,
    <<"Succeeded", "Succeeded">>, <<"Exhausted", "Exhausted">> }

\* the bound on the attempts of one run: no attempt for a bound below 1
AttemptBound == IF max_retries > 0 THEN max_retries ELSE 0

C16_States ==
  Orch => \A i \in 1..runs_arg :
    /\ RunState(i) = "Exhausted" =>
         /\ Len(LogOfRun(i)) = AttemptBound
         /\ \A k \in 1..Len(LogOfRun(i)) :
               /\ LogOfRun(i)[k].attempt = k
               /\ LogOfRun(i)[k].returncode # 0
         /\ in_flight = <<>>
    /\ RunState(i) = "Succeeded" =>
         /\ LogOfRun(i)[Len(LogOfRun(i))].returncode = 0
         /\ \A k \in 1..(Len(LogOfRun(i)) - 1) : LogOfRun(i)[k].returncode # 0
    /\ (i > 1 /\ RunState(i) # "Pending") => RunState(i - 1) = "Succeeded"

C16_Steps ==
  \A i \in 1..runs_arg :
    /\ <<RunState(i), RunState(i)'>> \in RunTransitions
    /\ RunState(i) = "Succeeded" => LogOfRun(i)' = LogOfRun(i)
    /\ RunState(i) # "Exhausted"

\* C16: each run goes Pending -> Attempting -> Succeeded | Exhausted;
\* Succeeded and Exhausted are terminal (no attempt of a run after its
\* success, no step at all after Exhausted), no run returns to Pending,
\* Exhausted is entered only after M failed attempts in a row, and run i+1
\* leaves Pending only after run i is Succeeded.
C16_RunStateMachine == [](C16_States) /\ [][Orch => C16_Steps]_vars

\* the second run is exhausted after the first one succeeded on a retry
C16_Witness ==
  /\ Orch /\ runs_arg >= 2 /\ max_retries >= 2
  /\ RunState(2) = "Exhausted"
  /\ Len(LogOfRun(1)) >= 2

\* C17: whenever the exhausted-retries abort is taken for a run, at least one
\* attempt of that run has been executed and the exit code passed on is the
\* nonzero return code of a real attempt, for every retry bound the command
\* line accepts (0 and negative ones too) with R >= 1.
C17_AbortHasRealAttempt ==
  (Orch /\ Aborted /\ runs_arg >= 1) =>
    /\ LogOfRun(run_idx) # <<>>
    /\ returncode # <<>>
    /\ returncode[1] = LastLogged.returncode /\ returncode[1] # 0
    /\ exit_via = "sys.exit"

\* the runs that have succeeded so far
SucceededRuns == {i \in 1..runs_arg : RunSucceeded(i)}

C19_List ==
  Orch =>
    /\ generated_files = PathsUpTo(Cardinality(SucceededRuns))
    /\ SucceededRuns = 1..Cardinality(SucceededRuns)
    /\ \A k \in 1..Len(generated_files) :
         /\ generated_files[k] = OutputFile(k)
         /\ LogOfRun(k)[Len(LogOfRun(k))].returncode = 0
    /\ \A k, m \in 1..Len(generated_files) :
         k # m => generated_files[k] # generated_files[m]

C19_Steps ==
  /\ \/ generated_files' = generated_files
     \/ generated_files' = Append(generated_files, OutputFile(run_idx))
  /\ attempts_log' # attempts_log =>
       LET e == attempts_log'[Len(attempts_log')] IN
         /\ e.returncode # 0 => generated_files' = generated_files
         /\ e.returncode = 0 =>
              generated_files' = Append(generated_files, OutputFile(e.run_idx))
  /\ attempts_log' = attempts_log => generated_files' = generated_files

\* C19: the list of successful artifact paths is always [path(1), ...,
\* path(k)] for the k runs that have succeeded so far: a failed attempt
\* leaves it unchanged, a successful one appends the path of the current
\* run, no path is removed or appended twice, and every path belongs to a
\* run whose last attempt returned 0.
C19_GeneratedFilesFrame == [](C19_List) /\ [][Orch => C19_Steps]_vars

\* two paths are recorded and the third run has just had a failed attempt
C19_Witness ==
  /\ Orch /\ Len(generated_files) = 2 /\ run_idx = 3
  /\ pc = "for_attempt" /\ attempt >= 1
  /\ LastLogged.returncode # 0

\* the outer loop has been left with every run succeeded
AllRunsDone == LoopOver /\ exit_via # "SystemExit" /\ AllRunsSucceeded

C20_Bounds ==
  Orch =>
    /\ Len(attempts_log) + Len(in_flight) <= runs_arg * AttemptBound + 1
    /\ Len(attempts_log) <= runs_arg * AttemptBound
    /\ (pc = "exited" /\ max_retries >= 1) =>
          \A i \in 1..run_idx : LogOfRun(i) # <<>>

\* C20: if every started command exits, the orchestrator terminates: with a
\* complete configuration it reaches the all-runs-succeeded state or the
\* exhausted-abort state, after at most R x M attempts in all, and with at
\* least one attempt for every run it started when M >= 1.
C20_Terminates ==
  /\ [](C20_Bounds)
  /\ Orch => <>(pc = "exited")
  /\ (Orch /\ MissingNames = {}) => <>(AllRunsDone \/ Aborted)

\* the process has ended after R x M attempts
C20_Witness ==
  /\ Orch /\ pc = "exited" /\ runs_arg = MaxRuns /\ max_retries = MaxRetries
  /\ Len(attempts_log) = runs_arg * max_retries

(* ======================================================================= *)
(* Properties of the reporter                                              *)
(* ======================================================================= *)
Rep == prog = "visualize_instability"

\* the exceptions load_runs lets through
LoadErrors == {"KeyError", "TypeError", "JSONDecodeError", "FileNotFoundError"}

\* melt_scores has returned
Melted == \/ pc \in {"plot_instability", "open_viewer"}
          \/ pc = "exited" /\ (exit_via \in {"SystemExit", "return"} \/ sink_calls # <<>>)

\* the artifact is a JSON object whose "runs" is an empty array
EmptyRunsArray(c) ==
  /\ c.t = "obj" /\ "runs" \in DOMAIN c.v
  /\ c.v["runs"].t = "arr" /\ c.v["runs"].v = <<>>

\* every file of the command line has been read and none held a run entry
NoRecordsYielded ==
  /\ Len(loaded) = Len(files)
  /\ \A i \in 1..Len(loaded) : EmptyRunsArray(loaded[i].content)

EmptyDatasetExit ==
  /\ exit_via = "SystemExit"
  /\ stderr = <<"No runs found in the provided files.", "">>
  /\ exit_status # <<>> /\ exit_status[1] # 0

\* C7 as stated: when the artifacts yield no run records (no artifact, or only
\* empty "runs" arrays), the reporter ends nonzero in the EmptyDataset failure,
\* which is no parse error, and the sink is never invoked.
C7_EmptyDatasetAlways ==
  (Rep /\ NoRecordsYielded) =>
    /\ sink_calls = <<>> /\ image = <<>>
    /\ pc = "exited" => EmptyDatasetExit

\* C7 amended: with one or more artifacts, all with an empty "runs" array, the
\* reporter ends nonzero in the EmptyDataset failure, which is no parse error;
\* with no artifact the argument parser rejects the command line (status 2)
\* before anything is read; in both cases the sink is never invoked.
C7_EmptyDatasetOrUsageError ==
  (Rep /\ NoRecordsYielded) =>
    /\ sink_calls = <<>> /\ image = <<>>
    /\ pc \in {"parse_args", "load_runs", "exited"}
    /\ (pc = "exited" /\ files # <<>>) =>
          /\ EmptyDatasetExit
          /\ exit_via \notin LoadErrors
    /\ (pc = "exited" /\ files = <<>>) =>
          /\ exit_via = "argparse.error"
          /\ exit_status = <<UsageErrorStatus>>
          /\ loaded = <<>> /\ runs = <<>>

\* two artifacts with empty "runs" arrays ended in the EmptyDataset failure
C7_Witness ==
  /\ Rep /\ pc = "exited" /\ Len(files) = 2 /\ NoRecordsYielded
  /\ exit_via = "SystemExit"

(* ---- the artifact format, as a validator ---- *)
Has(obj, key, type) == key \in DOMAIN obj.v /\ obj.v[key].t = type

\* the field of a score entry that departs from the format, "" if none
ScoreOffending(sc) ==
  IF sc.t # "obj" THEN "scores"
  ELSE IF ~Has(sc, "assignment", "obj") THEN "assignment"
  ELSE IF ~Has(sc.v["assignment"], "name", "str") THEN "name"
  ELSE IF ~Has(sc, "averageScore", "num") THEN "averageScore"
  ELSE ""

RunOffending(run) ==
  IF run.t # "obj" THEN "runs"
  ELSE IF ~Has(run, "model", "str") THEN "model"
  ELSE IF ~Has(run, "summary", "obj") THEN "summary"
  ELSE IF ~Has(run.v["summary"], "finalScore", "num") THEN "finalScore"
  ELSE IF ~Has(run, "scores", "arr") THEN "scores"
  ELSE LET sc == run.v["scores"].v
           bad == {k \in 1..Len(sc) : ScoreOffending(sc[k]) # ""}
       IN IF bad = {} THEN ""
          ELSE ScoreOffending(sc[CHOOSE k \in bad : \A m \in bad : k <= m])

Offending(c) ==
  IF c.t # "obj" \/ ~Has(c, "runs", "arr") THEN "runs"
  ELSE LET rs == c.v["runs"].v
           bad == {k \in 1..Len(rs) : RunOffending(rs[k]) # ""}
       IN IF bad = {} THEN ""
          ELSE RunOffending(rs[CHOOSE k \in bad : \A m \in bad : k <= m])

\* a JSON artifact that departs from the format
Malformed(c) == c.t \notin {"nofile", "notjson"} /\ Offending(c) # ""

\* C8: loading a malformed artifact fails with a parse error that names the
\* artifact and the offending field, and nothing of that artifact reaches the
\* Aggregator or the report.
C8_ParseErrorNamesArtifactAndField ==
  Rep => \A i \in 1..Len(loaded) :
    Malformed(loaded[i].content) =>
      /\ pc = "exited" /\ i = Len(loaded)
      /\ exit_via \in LoadErrors
      /\ exit_status # <<>> /\ exit_status[1] # 0
      /\ \E k \in 2..Len(stderr) : stderr[k] = Offending(loaded[i].content)
      /\ \E k \in 2..Len(stderr) : stderr[k] = loaded[i].path.name
      /\ df = <<>> /\ sink_calls = <<>> /\ image = <<>>

\* the rows that follow from the run list, by position
Offset(rs, i) ==
  LET RECURSIVE Sum(_)
      Sum(m) == IF m = 0 THEN 0 ELSE Len(rs[m].scores) + Sum(m - 1)
  IN Sum(i - 1)

\* C9: melt_scores gives exactly one row per (run record, assignment) pair:
\* as many rows as the sizes of the scores mappings add up to, and the row of
\* a pair carries the agent, source and finalScore of the record and the
\* averageScore of the assignment.
C9_OneRowPerPair ==
  (Rep /\ Melted) =>
    /\ Len(df) = Offset(runs, Len(runs) + 1)
    /\ \A i \in 1..Len(runs) : \A k \in 1..Len(runs[i].scores) :
          LET row == df[Offset(runs, i) + k] IN
            /\ row.agent = runs[i].agent
            /\ row.file = runs[i].file
            /\ row.finalScore = runs[i].finalScore
            /\ row.assignment = runs[i].scores[k].key
            /\ row.averageScore = runs[i].scores[k].value
    /\ \A i \in 1..Len(runs) : \A k, m \in 1..Len(runs[i].scores) :
          k # m => runs[i].scores[k].key # runs[i].scores[m].key

\* three records, one of them without scores, melted into four rows
C9_Witness ==
  /\ Rep /\ Melted /\ Len(runs) = 3 /\ Len(df) = 4
  /\ \E i \in 1..Len(runs) : runs[i].scores = <<>>

\* the scores of a record as a mapping
ScoreMap(scores) == {<<scores[k].key, scores[k].value>> : k \in 1..Len(scores)}

\* the record loaded at position j of an artifact is the record r written there
SameRecord(rec, r, j, path) ==
  /\ rec.agent = JStr(r.agent)
  /\ rec.finalScore = JNum(r.finalScore)
  /\ Len(rec.scores) = Len(r.scores)
  /\ ScoreMap(rec.scores) =
        {<<JStr(r.scores[k].name), JNum(r.scores[k].avg)>> : k \in 1..Len(r.scores)}
  /\ rec.run_index_in_file = j - 1
  /\ rec.file = path.name

\* the reads that load_runs got through without an exception
LoadedThrough ==
  IF pc = "exited" /\ exit_via \in LoadErrors /\ sink_calls = <<>>
  THEN Len(loaded) - 1 ELSE Len(loaded)

\* the run records an artifact in the format was written from
Unserialize(c) ==
  LET rs == c.v["runs"].v
      entries(sc) == [k \in 1..Len(sc) |->
                        Entry(sc[k].v["assignment"].v["name"].v,
                              sc[k].v["averageScore"].v)]
  IN [j \in 1..Len(rs) |->
        Run(rs[j].v["model"].v,
            rs[j].v["summary"].v["finalScore"].v,
            entries(rs[j].v["scores"].v))]

\* C10: an artifact written from run records loads back to records with the
\* same agent, finalScore and scores mapping, in the order of the "runs"
\* array, each with its position in that array.
C10_RoundTrip ==
  Rep => \A i \in 1..LoadedThrough :
    LET c == loaded[i].content IN
      (c.t = "obj" /\ Offending(c) = "") =>
        LET recs == Unserialize(c)
            off == EntriesRead(SubSeq(loaded, 1, i - 1))
        IN /\ Serialize(recs) = c
           /\ Len(runs) >= off + Len(recs)
           /\ \A j \in 1..Len(recs) :
                 SameRecord(runs[off + j], recs[j], j, loaded[i].path)

\* a second artifact of two different records has been loaded back
C10_Witness ==
  /\ Rep /\ Len(loaded) = 2 /\ LoadedThrough = 2
  /\ Len(runs) = 3
  /\ Entries(loaded[2].content) = 2
  /\ runs[2] # runs[3]
  /\ runs[3].run_index_in_file = 1
\* the saved image, once there is one, and the axes of an agent in it
Shown == Rep /\ image # <<>> /\ WellTyped(df)
AxesOf(agent) ==
  image[1].axes[CHOOSE c \in 1..Len(image[1].axes) : image[1].axes[c].agent = agent]

\* the sources in which an agent has rows
SourcesOf(agent) == {df[i].file : i \in {k \in 1..Len(df) : df[k].agent.v = agent}}

\* C11: for every agent of the long-form dataset the final-score series has
\* exactly one (source, finalScore) pair per source in which the agent has
\* records, never two pairs of the same source, in ascending order of the
\* source, also when one artifact holds several runs of the agent.
C11_OnePairPerSource ==
  Shown => \A agent \in {df[i].agent.v : i \in 1..Len(df)} :
    LET series == AxesOf(agent).final_scores IN
      /\ {series[k].file : k \in 1..Len(series)} = SourcesOf(agent)
      /\ \A k, m \in 1..Len(series) : k # m => series[k].file # series[m].file
      /\ \A k, m \in 1..Len(series) :
            k < m => Rank(series[k].file) <= Rank(series[m].file)
\* strictly ascending sequence of strings
Ascending(seq) == \A k, m \in 1..Len(seq) : k < m => Rank(seq[k]) < Rank(seq[m])

\* the rows of df of one agent, assignment and source, and the sum of their scores
RowsOf(agent, a, f) ==
  {k \in 1..Len(df) : df[k].agent.v = agent /\ df[k].assignment.v = a /\ df[k].file = f}
RECURSIVE SumOver(_)
SumOver(S) ==
  IF S = {} THEN 0
  ELSE LET k == CHOOSE x \in S : TRUE IN df[k].averageScore.v + SumOver(S \ {k})

\* the two-artifact example: A holds lint 0.9, test 0.7, final 0.80 and
\* B holds lint 0.5, test 0.65, final 0.60, both of agent gpt
ExampleA == Serialize(<<Run("gpt", 80, <<Entry("lint", 90), Entry("test", 70)>>)>>)
ExampleB == Serialize(<<Run("gpt", 60, <<Entry("test", 65), Entry("lint", 50)>>)>>)
ExampleLoaded ==
  /\ Len(loaded) = 2
  /\ \E i, j \in 1..2 :
        /\ loaded[i].path.name = "a.json" /\ loaded[i].content = ExampleA
        /\ loaded[j].path.name = "b.json" /\ loaded[j].content = ExampleB

\* C12: for every agent the grid has one row per assignment name of the agent
\* and one column per source of the agent, both ascending, each cell is the
\* mean of averageScore over the rows of that (assignment, source, agent),
\* and the agents come in ascending order; the two-artifact example gives
\* 4 rows, grid rows {lint, test}, columns {A, B}, lint = [0.9, 0.5],
\* test = [0.7, 0.65] and the series [(A, 0.80), (B, 0.60)].
C12_GridOfMeans ==
  Shown =>
    LET axes == image[1].axes IN
    /\ Ascending([c \in 1..Len(axes) |-> axes[c].agent])
    /\ {axes[c].agent : c \in 1..Len(axes)} = {df[i].agent.v : i \in 1..Len(df)}
    /\ \A c \in 1..Len(axes) :
         LET agent == axes[c].agent
             grid == axes[c].pivot
             mine == {k \in 1..Len(df) : df[k].agent.v = agent}
         IN /\ Ascending(grid.index) /\ Ascending(grid.columns)
            /\ {grid.index[i] : i \in 1..Len(grid.index)} = {df[k].assignment.v : k \in mine}
            /\ {grid.columns[j] : j \in 1..Len(grid.columns)} = {df[k].file : k \in mine}
            /\ \A i \in 1..Len(grid.index), j \in 1..Len(grid.columns) :
                 LET S == RowsOf(agent, grid.index[i], grid.columns[j])
                     cell == grid.cells[i][j]
                 IN IF S = {} THEN cell = <<>>
                    ELSE /\ Len(cell) = 1 /\ cell[1].n > 0
                         /\ cell[1].sum * Cardinality(S) = SumOver(S) * cell[1].n
    /\ ExampleLoaded =>
         /\ Len(df) = 4 /\ Len(axes) = 1 /\ axes[1].agent = "gpt"
         /\ axes[1].pivot.index = <<"lint", "test">>
         /\ axes[1].pivot.columns = <<"a.json", "b.json">>
         /\ \A i, j \in 1..2 :
               LET cell == axes[1].pivot.cells[i][j]
               IN Len(cell) = 1 /\ cell[1].sum = <<<<90, 50>>, <<70, 65>>>>[i][j] * cell[1].n
         /\ axes[1].final_scores = <<[file |-> "a.json", finalScore |-> 80],
                                     [file |-> "b.json", finalScore |-> 60]>>

\* the example with B named before A on the command line, drawn and saved
C12_Witness ==
  /\ Shown /\ ExampleLoaded
  /\ files[1].name = "b.json"
  /\ pc = "exited" /\ exit_status = <<0>>

\* a cell that is the mean of two different scores of two agents' figure
C12_WitnessMean ==
  /\ Shown /\ Len(image[1].axes) = 2
  /\ \E i, j \in 1..2 :
        /\ i <= Len(image[1].axes[1].pivot.index)
        /\ j <= Len(image[1].axes[1].pivot.columns)
        /\ image[1].axes[1].pivot.cells[i][j] # <<>>
        /\ image[1].axes[1].pivot.cells[i][j][1].n = 2
\* the attempt to open the image was made and how it was reported
Logged ==
  \E k \in 1..Len(stdout) : stdout[k] = "Could not open image automatically"
ImageIntact ==
  /\ image = <<Figure(df)>>
  /\ sink_calls = <<df>>
  /\ \E k \in 1..Len(stdout) : stdout[k] = "Saved visualization"
EndedWell == pc = "exited" /\ exit_via = "return" /\ exit_status = <<0>>

\* C14 as stated: every failure to open the written image in the viewer (the
\* viewer command missing, the viewer exiting nonzero, the open call raising)
\* is logged and non-fatal: exit code 0, the image unaffected.
C14_ViewerFailureLogged ==
  (Rep /\ viewer \in {"nonzero exit", "raises"}) =>
    /\ Logged
    /\ EndedWell
    /\ ImageIntact

\* C14 amended: a failure to open the written image that raises (the viewer
\* command missing, the open call raising) is logged; a viewer that exits
\* with a nonzero status is not looked at and nothing is logged; on every
\* platform either way the reporter ends with exit code 0 and the image is
\* unaffected.
C14_ViewerFailureNonFatal ==
  (Rep /\ viewer # "") =>
    /\ EndedWell
    /\ ImageIntact
    /\ Logged <=> viewer = "raises"
    /\ viewer = "none" <=> platform = "freebsd"
    /\ viewer = "nonzero exit" => platform \in {"darwin", "linux"}

\* the viewer could not be started on Linux, after the image was written
C14_Witness ==
  /\ Rep /\ viewer = "raises" /\ platform = "linux"
  /\ Logged /\ EndedWell /\ image # <<>>
\* the positions in runs of the records loaded from the i-th file read
SliceOf(i) ==
  LET off == EntriesRead(SubSeq(loaded, 1, i - 1))
  IN {p \in (off + 1)..(off + Entries(loaded[i].content)) : p <= Len(runs)}

\* the files read in which an agent has a record with at least one score
ArtifactsOf(agent) ==
  {i \in 1..LoadedThrough :
     \E p \in SliceOf(i) : runs[p].agent = JStr(agent) /\ runs[p].scores # <<>>}

\* C18: the source identifier of a run record names exactly one input
\* artifact: records loaded from two distinct paths carry different source
\* identifiers, so no final-score pair and no grid column merges records of
\* different artifacts.
C18_SourceNamesOneArtifact ==
  Rep =>
    /\ \A i, j \in 1..LoadedThrough :
         loaded[i].path # loaded[j].path =>
            \A p \in SliceOf(i), q \in SliceOf(j) : runs[p].file # runs[q].file
    /\ Shown =>
         \A c \in 1..Len(image[1].axes) :
            Len(image[1].axes[c].pivot.columns)
               = Cardinality(ArtifactsOf(image[1].axes[c].agent))
====
